---- MODULE Spec2Model ----
(***************************************************************************)
(* Model of the /trajectory/analyze handler of backend/main.py              *)
(* (analyze_trajectory) together with the request validation that the       *)
(* TrajectoryPoint / WellTrajectory models perform before the handler       *)
(* body runs.                                                               *)
(*                                                                          *)
(* Numbers.  The program computes in IEEE doubles.  The model computes in   *)
(* fixed point: survey fields are integers, angles are whole degrees, the   *)
(* values of cos and sin are integers in units of 1/Scale, and a float      *)
(* that may be NaN is a record [nan, v].  Every numpy call is an operator   *)
(* that computes the corresponding quantity (a table for cos, a search for  *)
(* arccos, sqrt and arctan), never the identity.                            *)
(***************************************************************************)
EXTENDS Integers, Sequences, FiniteSets, TLC

(***************************************************************************)
(* Bounds of the model.                                                     *)
(***************************************************************************)
NumReqs ==
    2
PosMaxPoints ==
    2
DlsMaxPoints ==
    3
ValMaxPoints ==
    2
AggMaxPoints ==
    3

Reqs ==
    1..NumReqs

(***************************************************************************)
(* Fixed-point numerics.                                                    *)
(***************************************************************************)
Scale ==
    100 * 100

Abs(x) ==
    IF x < 0 THEN -x ELSE x

\* cos of 0..90 degrees in units of 1/Scale (entry d+1 is cos(d degrees)).
CosTable ==
    << 10000, 9998, 9994, 9986, 9976, 9962, 9945, 9925, 9903, 9877,
       9848, 9816, 9781, 9744, 9703, 9659, 9613, 9563, 9511, 9455,
       9397, 9336, 9272, 9205, 9135, 9063, 8988, 8910, 8829, 8746,
       8660, 8572, 8480, 8387, 8290, 8192, 8090, 7986, 7880, 7771,
       7660, 7547, 7431, 7314, 7193, 7071, 6947, 6820, 6691, 6561,
       6428, 6293, 6157, 6018, 5878, 5736, 5592, 5446, 5299, 5150,
       5000, 4848, 4695, 4540, 4384, 4226, 4067, 3907, 3746, 3584,
       3420, 3256, 3090, 2924, 2756, 2588, 2419, 2250, 2079, 1908,
       1736, 1564, 1392, 1219, 1045, 872, 698, 523, 349, 175,
       0 >>

\* np.cos(np.radians(deg)) for a whole number of degrees.
CosDeg(deg) ==
    LET a == Abs(deg) % 360
        b == IF a > 180 THEN 360 - a ELSE a
    IN  IF b <= 90 THEN CosTable[b + 1] ELSE -CosTable[(180 - b) + 1]

\* np.sin(np.radians(deg)) for a whole number of degrees.
SinDeg(deg) ==
    CosDeg(deg - 90)

\* A float that may be NaN.
NaN ==
    [nan |-> TRUE, v |-> 0]

Num(n) ==
    [nan |-> FALSE, v |-> n]

\* np.arccos(x) * 180 / np.pi for x in units of 1/Scale: NaN outside
\* [-1, 1] (numpy warns and returns nan, it does not raise), otherwise the
\* angle in whole degrees, rounded down.
ArccosDeg(x) ==
    IF x > Scale \/ x < -Scale
    THEN NaN
    ELSE Num(CHOOSE d \in 0..180 :
                 /\ CosDeg(d) >= x
                 /\ (d = 180 \/ CosDeg(d + 1) < x))

\* np.sqrt(x) for an integer x >= 0, in hundredths, rounded down.
Sqrt(x) ==
    CHOOSE r \in 0..(100 * x) : r * r <= x * 10000 /\ (r + 1) * (r + 1) > x * 10000

\* arctan(num / den) in whole degrees for num, den >= 0 not both 0.
AtanDeg(num, den) ==
    CHOOSE d \in 0..90 :
        /\ SinDeg(d) * den <= num * CosDeg(d)
        /\ (d = 90 \/ SinDeg(d + 1) * den > num * CosDeg(d + 1))

\* np.degrees(np.arctan2(y, x)): the angle of (x, y) in (-180, 180].
Atan2Deg(y, x) ==
    IF x = 0 /\ y = 0 THEN 0
    ELSE IF x >= 0 /\ y >= 0 THEN AtanDeg(y, x)
    ELSE IF x < 0 /\ y >= 0 THEN 180 - AtanDeg(y, -x)
    ELSE IF x < 0 /\ y < 0 THEN AtanDeg(-y, -x) - 180
    ELSE -AtanDeg(-y, x)

(***************************************************************************)
(* Request bodies.  A field of a point in the JSON body is a number, is    *)
(* absent (or null), or is something that does not coerce to a float.      *)
(***************************************************************************)
RawNum(n) ==
    [kind |-> "num", v |-> n]

Missing ==
    [kind |-> "missing", v |-> 0]

Bad ==
    [kind |-> "bad", v |-> 0]

RawPoint(md, tvd, inc, azi, north, east) ==
    [md |-> md, tvd |-> tvd, inc |-> inc, azi |-> azi, north |-> north, east |-> east]

RequiredFields ==
    {"md", "tvd", "inc", "azi"}

OptionalFields ==
    {"north", "east"}

\* A validation that looks at md and north only.
ValidNorthOnly(p) ==
    /\ p.md.kind = "num"
    /\ p.north.kind \in {"num", "missing"}

\* class TrajectoryPoint: md, tvd, inc, azi are required floats; north and
\* east are Optional[float] with default None.
ValidPoint(p) ==
    /\ \A f \in RequiredFields : p[f].kind = "num"
    /\ \A f \in OptionalFields : p[f].kind \in {"num", "missing"}

\* WellTrajectory.points : List[TrajectoryPoint]; the body is accepted only
\* when every point validates.
ValidBody(points) ==
    \A k \in 1..Len(points) : ValidPoint(points[k])

\* The validated TrajectoryPoint: required fields as floats, north and east
\* as a float or None (kept as the "missing" field).
TrajectoryPoint(p) ==
    [md |-> p.md.v, tvd |-> p.tvd.v, inc |-> p.inc.v, azi |-> p.azi.v,
     north |-> p.north, east |-> p.east]

\* `point.north or 0`: None and 0.0 both give 0.
OrZero(x) ==
    IF x.kind = "num" /\ x.v /= 0 THEN x.v ELSE 0

\* One row of `data` (lines 278-285).
Row(point) ==
    [md |-> point.md, tvd |-> point.tvd, inc |-> point.inc, azi |-> point.azi,
     north |-> OrZero(point.north), east |-> OrZero(point.east)]

\* data = [...]; df = pd.DataFrame(data): one row per point, in order.
DataFrame(points) ==
    [k \in 1..Len(points) |-> Row(points[k])]

(***************************************************************************)
(* Column operations of the data frame.                                    *)
(***************************************************************************)
\* df[col].min(), the smallest value instead of the largest.
ColMin(df, col) ==
    CHOOSE m \in {df[k][col] : k \in 1..Len(df)} :
        \A k \in 1..Len(df) : m <= df[k][col]

\* df[col].max()
ColMax(df, col) ==
    CHOOSE m \in {df[k][col] : k \in 1..Len(df)} :
        \A k \in 1..Len(df) : df[k][col] <= m

\* df[col].iloc[0], the first row instead of the last.
ColFirst(df, col) ==
    df[1][col]

\* df[col].iloc[-1]
ColLast(df, col) ==
    df[Len(df)][col]

EmptyDict ==
    [k \in {} |-> 0]

\* The dictionary literal of lines 290-299.
Statistics(df) ==
    [total_length       |-> ColMax(df, "md"),
     total_displacement |-> Sqrt(ColMax(df, "north") * ColMax(df, "north")
                                 + ColMax(df, "east") * ColMax(df, "east")),
     max_inclination    |-> ColMax(df, "inc"),
     max_azimuth        |-> ColMax(df, "azi"),
     vertical_section   |-> ColMax(df, "tvd"),
     closure_distance   |-> Sqrt(ColLast(df, "north") * ColLast(df, "north")
                                 + ColLast(df, "east") * ColLast(df, "east")),
     closure_azimuth    |-> Atan2Deg(ColLast(df, "east"), ColLast(df, "north")),
     point_count        |-> Len(df)]

(***************************************************************************)
(* Dogleg severity of one interval (lines 309-328).                        *)
(***************************************************************************)
\* `if delta_md != 0:`, a guard that lets a negative delta_md through.
IntervalNonZero(delta_md) ==
    delta_md /= 0

\* `if delta_md > 0:`
IntervalValid(delta_md) ==
    delta_md > 0

\* The first wrap-around correction without the second.
WrapDownOnly(delta_azi) ==
    IF delta_azi > 180 THEN delta_azi - 360 ELSE delta_azi

\* Lines 315-318: the two wrap-around corrections, in order.
WrapAzimuth(delta_azi) ==
    LET d1 == IF delta_azi > 180 THEN delta_azi - 360 ELSE delta_azi
    IN  IF d1 < -180 THEN d1 + 360 ELSE d1

\* Product of two fixed-point values.
Mul(a, b) ==
    (a * b) \div Scale

\* The argument of np.arccos (lines 321-324).
ArccosArg(prev, curr, delta_inc, delta_azi) ==
    CosDeg(delta_inc)
    + Mul(Mul(SinDeg(prev.inc), SinDeg(curr.inc)), Scale - CosDeg(delta_azi))

\* dls_per_100ft = (dls / delta_md) * 100
DlsPer100(dls, delta_md) ==
    IF dls.nan THEN NaN ELSE Num((dls.v * 100) \div delta_md)

\* a > b on floats: false when either side is NaN.
FloatGt(a, b) ==
    ~a.nan /\ ~b.nan /\ a.v > b.v

\* Python's max(dls_values): keeps the first item and replaces it only by
\* an item that compares greater.
RECURSIVE MaxFrom(_, _, _)
MaxFrom(s, k, m) ==
    IF k > Len(s) THEN m
    ELSE MaxFrom(s, k + 1, IF FloatGt(s[k], m) THEN s[k] ELSE m)

PyMax(s) ==
    MaxFrom(s, 2, s[1])

RECURSIVE SumFrom(_, _)
SumFrom(s, k) ==
    IF k > Len(s) THEN 0 ELSE s[k].v + SumFrom(s, k + 1)

\* np.mean(dls_values): NaN as soon as one item is NaN.
NpMean(s) ==
    IF \E k \in 1..Len(s) : s[k].nan
    THEN NaN
    ELSE Num(SumFrom(s, 1) \div Len(s))

(***************************************************************************)
(* State.  Every variable is indexed by the request; each entry is what    *)
(* the handler invocation serving that request holds.                      *)
(***************************************************************************)
VARIABLES
    request,      \* the points of the JSON body, as received
    pc,           \* where the invocation is
    trajectory,   \* trajectory.points after validation
    df,           \* the data frame of line 287
    analysis,     \* the dictionary `analysis`
    dls_values,   \* the list `dls_values`
    i,            \* the loop variable of line 304
    interval,     \* the loop's locals: prev, curr, delta_md, delta_inc, delta_azi, arg, dls
    response      \* what the caller receives

vars ==
    <<request, pc, trajectory, df, analysis, dls_values, i, interval, response>>

NoRow ==
    [md |-> 0, tvd |-> 0, inc |-> 0, azi |-> 0, north |-> 0, east |-> 0]

NoInterval ==
    [prev |-> NoRow, curr |-> NoRow, delta_md |-> 0, delta_inc |-> 0,
     delta_azi |-> 0, arg |-> 0, dls |-> Num(0)]

NoResponse ==
    [status |-> 0, body |-> EmptyDict]

(***************************************************************************)
(* Inputs.                                                                 *)
(***************************************************************************)
SeqsUpTo(S, n) ==
    UNION {[1..k -> S] : k \in 0..n}

\* Points that differ in depth and in horizontal position.
PosPoints ==
    {RawPoint(RawNum(m), RawNum(m), RawNum(0), RawNum(0), n, e) :
        m \in 0..1,
        n \in {Missing, RawNum(-1), RawNum(0), RawNum(2)},
        e \in {Missing, RawNum(-1), RawNum(0), RawNum(1)}}

\* Points that differ in depth, inclination and azimuth.
DlsPoints ==
    {RawPoint(RawNum(m), RawNum(m), RawNum(a[1]), RawNum(a[2]), RawNum(1), RawNum(1)) :
        m \in 0..2,
        a \in {<<0, 0>>, <<90, 0>>, <<90, 10>>, <<90, 180>>, <<90, 350>>}}

GoodPoint ==
    RawPoint(RawNum(1), RawNum(1), RawNum(0), RawNum(0), RawNum(1), Missing)

\* Points with at most one malformed field.
ValPoints ==
    {GoodPoint}
    \cup {[GoodPoint EXCEPT ![f] = x] :
            f \in RequiredFields \cup {"north"}, x \in {Missing, Bad}}

Inputs ==
    SeqsUpTo(PosPoints, PosMaxPoints)
    \cup SeqsUpTo(DlsPoints, DlsMaxPoints)
    \cup SeqsUpTo(ValPoints, ValMaxPoints)

\* Points in which md, tvd, inc and azi take their largest values in
\* different rows.
AggPoints ==
    {RawPoint(RawNum(m), RawNum(t), RawNum(a[1]), RawNum(a[2]), RawNum(1), Missing) :
        m \in 0..1,
        t \in {0, 2},
        a \in {<<0, 10>>, <<90, 0>>}}

AggInputs ==
    SeqsUpTo(AggPoints, AggMaxPoints) \cup {<<[GoodPoint EXCEPT !.azi = Bad]>>}

ConcA ==
    RawPoint(RawNum(0), RawNum(0), RawNum(0), RawNum(0), RawNum(1), Missing)

ConcB ==
    RawPoint(RawNum(1), RawNum(1), RawNum(90), RawNum(350), RawNum(-1), RawNum(1))

ConcC ==
    RawPoint(RawNum(2), RawNum(1), RawNum(90), RawNum(10), Missing, RawNum(-1))

ConcInputs ==
    {<<>>, <<[ConcA EXCEPT !.inc = Bad]>>, <<ConcB>>, <<ConcA, ConcB>>,
     <<ConcB, ConcA>>, <<ConcA, ConcB, ConcC>>}

InitLocals ==
    /\ trajectory = [r \in Reqs |-> <<>>]
    /\ df = [r \in Reqs |-> <<>>]
    /\ analysis = [r \in Reqs |-> EmptyDict]
    /\ dls_values = [r \in Reqs |-> <<>>]
    /\ i = [r \in Reqs |-> 0]
    /\ interval = [r \in Reqs |-> NoInterval]
    /\ response = [r \in Reqs |-> NoResponse]

\* One request at a time.
Init ==
    /\ \E body \in Inputs : request = [r \in Reqs |-> IF r = 1 THEN body ELSE <<>>]
    /\ pc = [r \in Reqs |-> IF r = 1 THEN "received" ELSE "idle"]
    /\ InitLocals

\* One request at a time, on the inputs for the aggregate statistics.
InitAgg ==
    /\ \E body \in AggInputs : request = [r \in Reqs |-> IF r = 1 THEN body ELSE <<>>]
    /\ pc = [r \in Reqs |-> IF r = 1 THEN "received" ELSE "idle"]
    /\ InitLocals

\* Every request in flight at once.
InitConc ==
    /\ request \in [Reqs -> ConcInputs]
    /\ pc = [r \in Reqs |-> "received"]
    /\ InitLocals

(***************************************************************************)
(* Actions: the steps of one invocation.                                   *)
(***************************************************************************)
\* The body validates: the handler is called with the parsed trajectory.
Validate(r) ==
    /\ pc[r] = "received"
    /\ ValidBody(request[r])
    /\ trajectory' = [trajectory EXCEPT
                        ![r] = [k \in 1..Len(request[r]) |-> TrajectoryPoint(request[r][k])]]
    /\ pc' = [pc EXCEPT ![r] = "build"]
    /\ UNCHANGED <<request, df, analysis, dls_values, i, interval, response>>

\* The body does not validate: the caller gets the validation error and
\* the handler is never called.
ValidationError(r) ==
    /\ pc[r] = "received"
    /\ ~ValidBody(request[r])
    /\ response' = [response EXCEPT ![r] = [status |-> 422, body |-> EmptyDict]]
    /\ pc' = [pc EXCEPT ![r] = "done"]
    /\ UNCHANGED <<request, trajectory, df, analysis, dls_values, i, interval>>

\* Lines 276-287.
BuildFrame(r) ==
    /\ pc[r] = "build"
    /\ df' = [df EXCEPT ![r] = DataFrame(trajectory[r])]
    /\ pc' = [pc EXCEPT ![r] = "stats"]
    /\ UNCHANGED <<request, trajectory, analysis, dls_values, i, interval, response>>

\* Lines 290-299 on a frame with rows.
Aggregate(r) ==
    /\ pc[r] = "stats"
    /\ Len(df[r]) > 0
    /\ analysis' = [analysis EXCEPT ![r] = Statistics(df[r])]
    /\ pc' = [pc EXCEPT ![r] = "dls"]
    /\ UNCHANGED <<request, trajectory, df, dls_values, i, interval, response>>

\* Lines 290-291 on pd.DataFrame([]): the frame has no columns and
\* df['md'] raises KeyError.
AggregateRaise(r) ==
    /\ pc[r] = "stats"
    /\ Len(df[r]) = 0
    /\ pc' = [pc EXCEPT ![r] = "except"]
    /\ UNCHANGED <<request, trajectory, df, analysis, dls_values, i, interval, response>>

\* Line 302 true ('dls' is never a column): dls_values = [], enter the loop.
EnterLoop(r) ==
    /\ pc[r] = "dls"
    /\ Len(df[r]) > 1
    /\ dls_values' = [dls_values EXCEPT ![r] = <<>>]
    /\ i' = [i EXCEPT ![r] = 1]
    /\ pc' = [pc EXCEPT ![r] = "loop"]
    /\ UNCHANGED <<request, trajectory, df, analysis, interval, response>>

\* Line 302 false, with the else branch left out: nothing is set.
NoIntervalsUnset(r) ==
    /\ pc[r] = "dls"
    /\ ~(Len(df[r]) > 1)
    /\ pc' = [pc EXCEPT ![r] = "return"]
    /\ UNCHANGED <<request, trajectory, df, analysis, dls_values, i, interval, response>>

\* Line 302 false: lines 337-338 with no 'dls' column.
NoIntervals(r) ==
    /\ pc[r] = "dls"
    /\ ~(Len(df[r]) > 1)
    /\ analysis' = [analysis EXCEPT
                      ![r] = [max_dls |-> Num(0), avg_dls |-> Num(0)] @@ @]
    /\ pc' = [pc EXCEPT ![r] = "return"]
    /\ UNCHANGED <<request, trajectory, df, dls_values, i, interval, response>>

\* An append to one list shared by all invocations.
AppendAll(dv, r, x) ==
    [q \in Reqs |-> Append(dv[q], x)]

\* dls_values.append(x): the list is a local of invocation r.
AppendDls(dv, r, x) ==
    [dv EXCEPT ![r] = Append(@, x)]

\* One iteration of the loop whose interval has delta_md > 0 (lines 305-328).
Interval(r) ==
    /\ pc[r] = "loop"
    /\ i[r] < Len(df[r])
    /\ LET prev      == df[r][i[r]]
           curr      == df[r][i[r] + 1]
           delta_md  == curr.md - prev.md
           delta_inc == curr.inc - prev.inc
           delta_azi == WrapAzimuth(curr.azi - prev.azi)
           arg       == ArccosArg(prev, curr, delta_inc, delta_azi)
           dls       == ArccosDeg(arg)
       IN  /\ IntervalValid(delta_md)
           /\ interval' = [interval EXCEPT
                             ![r] = [prev |-> prev, curr |-> curr, delta_md |-> delta_md,
                                     delta_inc |-> delta_inc, delta_azi |-> delta_azi,
                                     arg |-> arg, dls |-> dls]]
           /\ dls_values' = AppendDls(dls_values, r, DlsPer100(dls, delta_md))
    /\ i' = [i EXCEPT ![r] = @ + 1]
    /\ UNCHANGED <<request, pc, trajectory, df, analysis, response>>

\* One iteration whose interval is skipped (line 310 false).
SkipInterval(r) ==
    /\ pc[r] = "loop"
    /\ i[r] < Len(df[r])
    /\ LET prev     == df[r][i[r]]
           curr     == df[r][i[r] + 1]
           delta_md == curr.md - prev.md
       IN  /\ ~IntervalValid(delta_md)
           /\ interval' = [interval EXCEPT ![r].prev = prev, ![r].curr = curr,
                                           ![r].delta_md = delta_md]
    /\ i' = [i EXCEPT ![r] = @ + 1]
    /\ UNCHANGED <<request, pc, trajectory, df, analysis, dls_values, response>>

\* The loop is over: lines 330-335.
Summarize(r) ==
    /\ pc[r] = "loop"
    /\ ~(i[r] < Len(df[r]))
    /\ analysis' = [analysis EXCEPT
                      ![r] = (IF dls_values[r] /= <<>>
                              THEN [max_dls |-> PyMax(dls_values[r]),
                                    avg_dls |-> NpMean(dls_values[r])]
                              ELSE [max_dls |-> Num(0), avg_dls |-> Num(0)]) @@ @]
    /\ pc' = [pc EXCEPT ![r] = "return"]
    /\ UNCHANGED <<request, trajectory, df, dls_values, i, interval, response>>

\* Line 340.
Return(r) ==
    /\ pc[r] = "return"
    /\ response' = [response EXCEPT ![r] = [status |-> 200, body |-> analysis[r]]]
    /\ pc' = [pc EXCEPT ![r] = "done"]
    /\ UNCHANGED <<request, trajectory, df, analysis, dls_values, i, interval>>

\* Lines 342-343.
Except(r) ==
    /\ pc[r] = "except"
    /\ response' = [response EXCEPT ![r] = [status |-> 500, body |-> EmptyDict]]
    /\ pc' = [pc EXCEPT ![r] = "done"]
    /\ UNCHANGED <<request, trajectory, df, analysis, dls_values, i, interval>>

Next ==
    \E r \in Reqs :
        \/ Validate(r)
        \/ ValidationError(r)
        \/ BuildFrame(r)
        \/ Aggregate(r)
        \/ AggregateRaise(r)
        \/ EnterLoop(r)
        \/ NoIntervals(r)
        \/ Interval(r)
        \/ SkipInterval(r)
        \/ Summarize(r)
        \/ Return(r)
        \/ Except(r)

Spec ==
    Init /\ [][Next]_vars

SpecConc ==
    InitConc /\ [][Next]_vars

SpecAgg ==
    InitAgg /\ [][Next]_vars

TypeOK ==
    \A r \in Reqs :
        pc[r] \in {"idle", "received", "build", "stats", "dls", "loop",
                   "return", "except", "done"}

(***************************************************************************)
(* Vocabulary of the properties, stated on the request as received.        *)
(***************************************************************************)
\* The invocation returned an analysis.
Returned(r) ==
    pc[r] = "done" /\ response[r].status = 200

\* north / east of a received point, an absent one taken as 0.
NorthOf(p) ==
    IF p.north.kind = "num" THEN p.north.v ELSE 0

EastOf(p) ==
    IF p.east.kind = "num" THEN p.east.v ELSE 0

\* Some point lacks a numeric md, tvd, inc or azi.
Malformed(points) ==
    \E k \in 1..Len(points) : \E f \in RequiredFields : points[k][f].kind /= "num"

\* Interval k (2..n) of the received points has delta_md > 0.
PositiveInterval(points, k) ==
    points[k].md.v - points[k - 1].md.v > 0

\* The invocation has just computed a dogleg for an interval with delta_md > 0.
AtDogleg(r) ==
    pc[r] \in {"loop", "return", "done"} /\ interval[r].delta_md > 0

FloatLe(a, b) ==
    ~a.nan /\ ~b.nan /\ a.v <= b.v

IsMaximum(m, s) ==
    /\ \E k \in 1..Len(s) : s[k] = m
    /\ \A k \in 1..Len(s) : FloatLe(s[k], m)

IsMean(a, s) ==
    /\ ~a.nan
    /\ \A k \in 1..Len(s) : ~s[k].nan
    /\ a.v * Len(s) <= SumFrom(s, 1)
    /\ SumFrom(s, 1) < a.v * Len(s) + Len(s)

(***************************************************************************)
(* C1.  total_displacement is the Euclidean norm of the (north, east) of   *)
(* the point that has the maximum md.  The code takes the column maxima    *)
(* of north and east instead (line 292), so this is violated.              *)
(***************************************************************************)
C1_DisplacementAtMaxMd ==
    \A r \in Reqs :
        Returned(r) =>
            \E k \in 1..Len(request[r]) :
                /\ \A j \in 1..Len(request[r]) : request[r][j].md.v <= request[r][k].md.v
                /\ response[r].body.total_displacement
                     = Sqrt(NorthOf(request[r][k]) * NorthOf(request[r][k])
                            + EastOf(request[r][k]) * EastOf(request[r][k]))

(***************************************************************************)
(* C2.  closure_azimuth of every returned analysis lies in [0, 360).  The  *)
(* code returns degrees(arctan2(east, north)) as is (line 297), which is   *)
(* negative for a negative east, so this is violated.                      *)
(***************************************************************************)
C2_ClosureAzimuthRange ==
    \A r \in Reqs :
        Returned(r) =>
            /\ response[r].body.closure_azimuth >= 0
            /\ response[r].body.closure_azimuth < 360

(***************************************************************************)
(* C3.  A well-formed request with fewer than 2 points does not fail: it   *)
(* ends in an analysis with max_dls = 0 and avg_dls = 0.  The empty        *)
(* sequence ends in the 500 error instead, so this is violated.            *)
(***************************************************************************)
C3_FewPointsDoNotFail ==
    \A r \in Reqs :
        (pc[r] = "done" /\ ValidBody(request[r]) /\ Len(request[r]) < 2) =>
            /\ response[r].status = 200
            /\ response[r].body.max_dls = Num(0)
            /\ response[r].body.avg_dls = Num(0)

(***************************************************************************)
(* C4, as stated.  For consecutive azimuths in [0, 360) the delta_azi      *)
(* used in the dogleg formula lies in (-180, 180].  Violated: 180          *)
(* followed by 0 gives -180.                                               *)
(***************************************************************************)
C4_DeltaAziHalfOpen ==
    \A r \in Reqs :
        (/\ AtDogleg(r)
         /\ request[r][i[r] - 1].azi.v \in 0..359
         /\ request[r][i[r]].azi.v \in 0..359) =>
            /\ interval[r].delta_azi > -180
            /\ interval[r].delta_azi <= 180

(***************************************************************************)
(* C4, amended.  For consecutive azimuths in [0, 360) the delta_azi used   *)
(* in the dogleg formula is congruent to azi[i] - azi[i-1] modulo 360 and  *)
(* lies in the closed interval [-180, 180]; azimuths 350 followed by 10    *)
(* give delta_azi = 20.                                                    *)
(***************************************************************************)
C4_DeltaAziClosed ==
    \A r \in Reqs :
        (/\ AtDogleg(r)
         /\ request[r][i[r] - 1].azi.v \in 0..359
         /\ request[r][i[r]].azi.v \in 0..359) =>
            LET before == request[r][i[r] - 1].azi.v
                after  == request[r][i[r]].azi.v
            IN  /\ interval[r].delta_azi >= -180
                /\ interval[r].delta_azi <= 180
                /\ (interval[r].delta_azi - (after - before)) % 360 = 0
                /\ (before = 350 /\ after = 10) => interval[r].delta_azi = 20

C4_Witness ==
    \E r \in Reqs :
        /\ AtDogleg(r)
        /\ request[r][i[r] - 1].azi.v = 350
        /\ request[r][i[r]].azi.v = 10
        /\ interval[r].delta_azi = 20

(***************************************************************************)
(* C5.  The DLS series has exactly one entry per adjacent pair with        *)
(* delta_md > 0 and none for a pair with delta_md <= 0: while the loop     *)
(* runs it holds one entry per positive interval already visited, and      *)
(* after the loop one per positive interval of the whole sequence, hence   *)
(* at most n-1 entries and exactly n-1 when every delta_md is positive.    *)
(***************************************************************************)
C5_SeriesLength ==
    \A r \in Reqs :
        LET n == Len(request[r])
        IN  /\ pc[r] = "loop" =>
                Len(dls_values[r])
                  = Cardinality({k \in 2..i[r] : PositiveInterval(request[r], k)})
            /\ (pc[r] \in {"return", "done"} /\ ValidBody(request[r]) /\ n >= 2) =>
                /\ Len(dls_values[r])
                     = Cardinality({k \in 2..n : PositiveInterval(request[r], k)})
                /\ Len(dls_values[r]) <= n - 1
                /\ (\A k \in 2..n : PositiveInterval(request[r], k)) =>
                       Len(dls_values[r]) = n - 1

C5_Witness ==
    \E r \in Reqs :
        /\ Returned(r)
        /\ Len(request[r]) = 3
        /\ PositiveInterval(request[r], 2)
        /\ ~PositiveInterval(request[r], 3)
        /\ Len(dls_values[r]) = 1

(***************************************************************************)
(* C6.  When the DLS series is non-empty, max_dls is the maximum and       *)
(* avg_dls the arithmetic mean of its entries; when it is empty both are   *)
(* 0.  Violated when an entry is NaN (the unclamped arccos of C8): then    *)
(* max_dls depends on the position of the NaN and avg_dls is NaN.          *)
(***************************************************************************)
C6_MaxAndMean ==
    \A r \in Reqs :
        (Returned(r) /\ Len(request[r]) >= 2) =>
            IF dls_values[r] /= <<>>
            THEN /\ IsMaximum(response[r].body.max_dls, dls_values[r])
                 /\ IsMean(response[r].body.avg_dls, dls_values[r])
            ELSE /\ response[r].body.max_dls = Num(0)
                 /\ response[r].body.avg_dls = Num(0)

(***************************************************************************)
(* C7.  A request with a point whose md, tvd, inc or azi is missing or     *)
(* non-numeric fails with the validation error, before anything is         *)
(* computed: the handler body never runs for it, no frame and no analysis  *)
(* is ever built, and the response carries no analysis.                    *)
(***************************************************************************)
C7_MalformedRejected ==
    \A r \in Reqs :
        (pc[r] /= "idle" /\ Malformed(request[r])) =>
            /\ pc[r] \in {"received", "done"}
            /\ trajectory[r] = <<>>
            /\ df[r] = <<>>
            /\ analysis[r] = EmptyDict
            /\ dls_values[r] = <<>>
            /\ pc[r] = "done" => response[r] = [status |-> 422, body |-> EmptyDict]

C7_Witness ==
    \E r \in Reqs :
        /\ pc[r] = "done"
        /\ Len(request[r]) = 2
        /\ ValidPoint(request[r][1])
        /\ request[r][2].tvd.kind = "bad"
        /\ response[r].status = 422

(***************************************************************************)
(* C8.  For every interval with delta_md > 0 the value passed to arccos    *)
(* lies in [-1, 1], the dogleg angle is never NaN, and it is 0 when        *)
(* delta_inc = 0 and delta_azi = 0.  The code does not clamp (lines        *)
(* 320-325), so this is violated.                                          *)
(***************************************************************************)
C8_ArccosClamped ==
    \A r \in Reqs :
        AtDogleg(r) =>
            /\ interval[r].arg >= -Scale
            /\ interval[r].arg <= Scale
            /\ ~interval[r].dls.nan
            /\ (interval[r].delta_inc = 0 /\ interval[r].delta_azi = 0) =>
                   interval[r].dls = Num(0)

(***************************************************************************)
(* C9.  closure_distance and closure_azimuth come from the north and east  *)
(* of the last element of the sequence as given, an absent north or east   *)
(* taken as 0, and total_length is the maximum md over the whole           *)
(* sequence.                                                               *)
(***************************************************************************)
C9_ClosureFromLast ==
    \A r \in Reqs :
        Returned(r) =>
            LET n    == Len(request[r])
                last == request[r][n]
            IN  /\ response[r].body.closure_distance
                     = Sqrt(NorthOf(last) * NorthOf(last) + EastOf(last) * EastOf(last))
                /\ response[r].body.closure_azimuth
                     = Atan2Deg(EastOf(last), NorthOf(last))
                /\ \E k \in 1..n : request[r][k].md.v = response[r].body.total_length
                /\ \A k \in 1..n : request[r][k].md.v <= response[r].body.total_length

C9_Witness ==
    \E r \in Reqs :
        /\ Returned(r)
        /\ Len(request[r]) = 2
        /\ request[r][2].md.v < request[r][1].md.v
        /\ request[r][2].north.kind = "missing"
        /\ request[r][2].east.v = -1
        /\ request[r][1].north.v = 2
        /\ response[r].body.total_length = request[r][1].md.v
        /\ response[r].body.closure_distance = 100
        /\ response[r].body.closure_azimuth = -90

(***************************************************************************)
(* Reference for C10: the response to a request served alone, as a         *)
(* function of the received points.                                        *)
(***************************************************************************)
RECURSIVE SeriesUpTo(_, _)
SeriesUpTo(rows, k) ==
    IF k < 2 THEN <<>>
    ELSE LET s        == SeriesUpTo(rows, k - 1)
             prev     == rows[k - 1]
             curr     == rows[k]
             delta_md == curr.md - prev.md
         IN  IF delta_md > 0
             THEN Append(s, DlsPer100(ArccosDeg(ArccosArg(prev, curr,
                                                          curr.inc - prev.inc,
                                                          WrapAzimuth(curr.azi - prev.azi))),
                                      delta_md))
             ELSE s

AnalyzeAlone(points) ==
    IF ~ValidBody(points) THEN [status |-> 422, body |-> EmptyDict]
    ELSE IF Len(points) = 0 THEN [status |-> 500, body |-> EmptyDict]
    ELSE LET rows   == DataFrame([k \in 1..Len(points) |-> TrajectoryPoint(points[k])])
             series == SeriesUpTo(rows, Len(rows))
         IN  [status |-> 200,
              body   |-> (IF series /= <<>>
                          THEN [max_dls |-> PyMax(series), avg_dls |-> NpMean(series)]
                          ELSE [max_dls |-> Num(0), avg_dls |-> Num(0)])
                         @@ Statistics(rows)]

\* Everything invocation q holds.
Entry(q) ==
    <<request[q], pc[q], trajectory[q], df[q], analysis[q], dls_values[q],
      i[q], interval[q], response[q]>>

(***************************************************************************)
(* C10.  Concurrent invocations are independent: under every interleaving  *)
(* each finished invocation's response is the response to its request      *)
(* served alone, no step changes a request's points or its parsed          *)
(* trajectory, and every step changes the state of one invocation only.    *)
(***************************************************************************)
C10_Independent ==
    /\ [](\A r \in Reqs : pc[r] = "done" => response[r] = AnalyzeAlone(request[r]))
    /\ [][/\ request' = request
          /\ \A r \in Reqs : pc[r] \notin {"idle", "received"} =>
                                 trajectory'[r] = trajectory[r]]_vars
    /\ [][\E r \in Reqs : \A q \in Reqs \ {r} : Entry(q)' = Entry(q)]_vars

C10_Witness ==
    \E r \in Reqs : \E q \in Reqs \ {r} :
        /\ request[r] /= request[q]
        /\ pc[r] = "loop" /\ Len(dls_values[r]) >= 1
        /\ pc[q] = "loop" /\ Len(dls_values[q]) >= 1

(***************************************************************************)
(* Vocabulary of C11.                                                      *)
(***************************************************************************)
\* The permutations of 1..n.
Perms(n) ==
    {f \in [1..n -> 1..n] : \A a, b \in 1..n : f[a] = f[b] => a = b}

\* The points in the order given by the permutation f.
Permute(points, f) ==
    [k \in 1..Len(points) |-> points[f[k]]]

\* The five aggregate statistics of an analysis.
Aggregates(body) ==
    <<body.total_length, body.max_inclination, body.max_azimuth,
      body.vertical_section, body.point_count>>

\* v is the largest value of field f among the received points.
IsLargest(v, points, f) ==
    /\ \E k \in 1..Len(points) : points[k][f].v = v
    /\ \A k \in 1..Len(points) : points[k][f].v <= v

(***************************************************************************)
(* C11.  total_length, max_inclination, max_azimuth, vertical_section and  *)
(* point_count are order-independent: the returned values are the largest  *)
(* md, inc, azi, tvd and the number of points, and the request served      *)
(* with its points in any other order returns the same five values.        *)
(***************************************************************************)
C11_OrderIndependent ==
    \A r \in Reqs :
        Returned(r) =>
            LET n    == Len(request[r])
                body == response[r].body
            IN  /\ IsLargest(body.total_length, request[r], "md")
                /\ IsLargest(body.max_inclination, request[r], "inc")
                /\ IsLargest(body.max_azimuth, request[r], "azi")
                /\ IsLargest(body.vertical_section, request[r], "tvd")
                /\ body.point_count = n
                /\ \A f \in Perms(n) :
                       Aggregates(AnalyzeAlone(Permute(request[r], f)).body)
                         = Aggregates(body)

C11_Witness ==
    \E r \in Reqs :
        /\ Returned(r)
        /\ Len(request[r]) = 3
        /\ request[r][1].md.v > request[r][3].md.v
        /\ request[r][2].tvd.v > request[r][1].tvd.v
        /\ request[r][3].inc.v > request[r][2].inc.v
        /\ request[r][2].azi.v > request[r][3].azi.v
        /\ Aggregates(response[r].body) = <<1, 90, 10, 2, 3>>

(***************************************************************************)
(* Vocabulary of C12.                                                      *)
(***************************************************************************)
TenFields ==
    {"total_length", "total_displacement", "max_inclination", "max_azimuth",
     "vertical_section", "closure_distance", "closure_azimuth", "point_count",
     "max_dls", "avg_dls"}

\* The handler was called for request r (the body validated).
Called(r) ==
    pc[r] \notin {"idle", "received"} /\ ValidBody(request[r])

(***************************************************************************)
(* C12.  The outcome of the handler is all-or-nothing: every call ends     *)
(* either in the 500 error carrying no analysis or in a result with        *)
(* exactly the ten fields, and on both branches of the DLS computation     *)
(* max_dls and avg_dls are set before the result is returned.              *)
(***************************************************************************)
C12_AllOrNothing ==
    \A r \in Reqs :
        Called(r) =>
            /\ pc[r] = "return" => DOMAIN analysis[r] = TenFields
            /\ pc[r] = "done" =>
                \/ response[r] = [status |-> 500, body |-> EmptyDict]
                \/ /\ response[r].status = 200
                   /\ DOMAIN response[r].body = TenFields

C12_Witness ==
    \E r \in Reqs :
        /\ Called(r)
        /\ Len(request[r]) = 1
        /\ Returned(r)
        /\ DOMAIN response[r].body = TenFields
        /\ response[r].body.max_dls = Num(0)

(***************************************************************************)
(* C13.  In every returned analysis 0 <= avg_dls <= max_dls, and every     *)
(* entry of the DLS series is non-negative.  Violated when an entry is     *)
(* NaN (the unclamped arccos of C8): NaN compares neither >= 0 nor         *)
(* <= max_dls.                                                             *)
(***************************************************************************)
C13_AvgBelowMax ==
    \A r \in Reqs :
        Returned(r) =>
            /\ FloatLe(Num(0), response[r].body.avg_dls)
            /\ FloatLe(response[r].body.avg_dls, response[r].body.max_dls)
            /\ \A k \in 1..Len(dls_values[r]) : FloatLe(Num(0), dls_values[r][k])

====
